---- MODULE Spec2Model ----
(***************************************************************************)
(* A model of the Sudoku solver of src/sudoku.py: the bitmask board, the   *)
(* constraint groups, simple_fill (naked-single propagation) and the       *)
(* recursive solver with clone / sync_to.                                  *)
(*                                                                         *)
(* Python objects are modelled as a heap.  Every SudokuBoard() call        *)
(* allocates 81 Slot objects and one list of empty coordinates; the k-th   *)
(* allocation is slots[k] / lists[k].  A SudokuBoard object obj[k] holds   *)
(* REFERENCES: which allocation its .board, .row, .column, .block point    *)
(* into and which list its .empty_slots is, so that the reference copies   *)
(* of sync_to and the value copies of clone are told apart.                *)
(***************************************************************************)
EXTENDS Integers, Sequences, FiniteSets, TLC

VARIABLES
  slots,    \* slots[k][r][c]: the .raw of the Slot objects of allocation k
  lists,    \* lists[k]: the content of the k-th empty-slot list object
  obj,      \* obj[k]: the fields of the k-th SudokuBoard, as references
  stack,    \* the call stack of solver, innermost frame last
  result,   \* what the outermost solver call returned ("NONE" before)
  given,    \* history: the digits handed to gen_board
  last,     \* history: the operation that just returned
  clones,   \* history: the pairs <<source, clone>> made by clone, until sync_to
            \* re-points one of the two
  nops      \* number of board operations made by the API driver

vars == <<slots, lists, obj, stack, result, given, last, clones, nops>>

(***************************************************************************)
(* Constants of the program                                                *)
(***************************************************************************)
FULL_MASK == 511

Idx == 0 .. 8

NO_UPDATE == "NO_UPDATE"
UPDATE    == "UPDATE"
CONFLICT  == "CONFLICT"
ALL_DONE  == "ALL_DONE"

SolverResults == {NO_UPDATE, UPDATE, CONFLICT, ALL_DONE}

\* R_TO_NUM = {0: 0, 1: 1, 2: 2, 4: 3, ..., 256: 9}
R_TO_NUM == [m \in {0} \cup {2 ^ i : i \in Idx} |->
               IF m = 0 THEN 0 ELSE 1 + CHOOSE i \in Idx : 2 ^ i = m]

(***************************************************************************)
(* Integer bit operations on 9-bit masks                                   *)
(***************************************************************************)
\* F applied to the value of e, with e evaluated once (a local variable)
Local(e, F(_)) == CHOOSE y \in {F(x) : x \in {e}} : TRUE

Bit(m, i) == (m \div (2 ^ i)) % 2

\* int.bit_count()
BitCount(m) == Local(m, LAMBDA v : Cardinality({i \in Idx : Bit(v, i) = 1}))

RECURSIVE OrFrom(_, _)
OrFrom(S, i) ==
  IF i > 8 THEN 0
  ELSE (IF \E m \in S : Bit(m, i) = 1 THEN 2 ^ i ELSE 0) + OrFrom(S, i + 1)

\* the bitwise OR of a set of masks
OrAll(S) == Local(S, LAMBDA T : OrFrom(T, 0))

(***************************************************************************)
(* Slot                                                                    *)
(***************************************************************************)
\* Slot.set: self.raw = 1 << (number - 1) if number else 0
SlotSet(number) == IF number # 0 THEN 2 ^ (number - 1) ELSE 0

\* Slot.is_fill
is_fill(raw) == IF raw # 0 THEN 1 ELSE 0

(***************************************************************************)
(* SlotGroup: nine Slot references.  A group is the sequence of the nine   *)
(* coordinates it was built from; the allocation it points into comes from *)
(* the field (.row, .column, .block) it was reached through.               *)
(***************************************************************************)
RowCells(i)    == [k \in 1 .. 9 |-> <<i, k - 1>>]
ColumnCells(i) == [k \in 1 .. 9 |-> <<k - 1, i>>]
\* block b is appended for i in [0,3,6], r in [0,3,6]: rows i..i+2, columns r..r+2
BlockCells(b)  ==
  LET i == 3 * (b \div 3)
      r == 3 * (b % 3)
  IN [k \in 1 .. 9 |-> <<i + ((k - 1) \div 3), r + ((k - 1) % 3)>>]

\* SlotGroup.combine
combine(g, cells) ==
  Local(cells, LAMBDA cs : OrAll({g[cs[k][1]][cs[k][2]] : k \in 1 .. 9}))

RECURSIVE FillSum(_, _, _)
FillSum(g, cells, k) ==
  IF k > 9 THEN 0 ELSE is_fill(g[cells[k][1]][cells[k][2]]) + FillSum(g, cells, k + 1)

\* SlotGroup.is_legal
group_is_legal(g, cells) == BitCount(combine(g, cells)) = FillSum(g, cells, 1)

(***************************************************************************)
(* SudokuBoard                                                             *)
(***************************************************************************)
\* SudokuBoard.__init__ as the k-th allocation: every field points into k
NewBoard(k) == [board |-> k, row |-> k, column |-> k, block |-> k, empty_slots |-> k]

RECURSIVE ScanEmpty(_, _)
ScanEmpty(digits, n) ==
  IF n > 80 THEN <<>>
  ELSE LET r == n \div 9
           c == n % 9
       IN (IF digits[r][c] = 0 THEN <<(<<r, c>>)>> ELSE <<>>) \o ScanEmpty(digits, n + 1)

\* SudokuBoard.set_board_num: the raws, and the empty coordinates in row-major order
SetBoardRaw(digits)   == [r \in Idx |-> [c \in Idx |-> SlotSet(digits[r][c])]]
SetBoardEmpty(digits) == ScanEmpty(digits, 0)

\* variant of slot_candidates that leaves the column group out
slot_candidates_no_column(s, ob, row, column) ==
  FULL_MASK - OrAll({ combine(s[ob.row], RowCells(row)),
                      combine(s[ob.block], BlockCells(((row \div 3) * 3) + (column \div 3))) })

\* SlotCandidates.__init__ through SudokuBoard.slot_candidates
slot_candidates(s, ob, row, column) ==
  FULL_MASK - OrAll({ combine(s[ob.row], RowCells(row)),
                      combine(s[ob.column], ColumnCells(column)),
                      combine(s[ob.block], BlockCells(((row \div 3) * 3) + (column \div 3))) })

\* SudokuBoard.is_legal
is_legal(s, ob) ==
  /\ \A i \in Idx : group_is_legal(s[ob.row], RowCells(i))
  /\ \A i \in Idx : group_is_legal(s[ob.column], ColumnCells(i))
  /\ \A i \in Idx : group_is_legal(s[ob.block], BlockCells(i))

\* SudokuBoard.is_done
is_done(s, ob) == \A i \in Idx : combine(s[ob.row], RowCells(i)) = FULL_MASK

\* board[r][c].raw = v on allocation k
SetRaw(s, k, r, c, v) == [s EXCEPT ![k][r][c] = v]

(***************************************************************************)
(* list.sort(key=..., reverse=True): descending by key and stable, i.e.    *)
(* entries with equal keys keep their original order.  keys[i] is the key  *)
(* of es[i]; entry i lands after every entry with a larger key and after   *)
(* the earlier entries with the same key.                                  *)
(***************************************************************************)
\* variant of SortRank that is not stable: entries with equal keys are reversed
SortRankReversingTies(keys, i) ==
  1 + Cardinality({j \in DOMAIN keys : keys[j] > keys[i]})
    + Cardinality({j \in DOMAIN keys : j > i /\ keys[j] = keys[i]})

SortRank(keys, i) ==
  1 + Cardinality({j \in DOMAIN keys : keys[j] > keys[i]})
    + Cardinality({j \in DOMAIN keys : j < i /\ keys[j] = keys[i]})

\* variant of SortDescending that sorts ascending (reverse=False)
SortAscending(es, keys) ==
  [p \in 1 .. Len(es) |->
     es[CHOOSE i \in 1 .. Len(es) :
          p = 1 + Cardinality({j \in DOMAIN keys : keys[j] < keys[i]})
                + Cardinality({j \in DOMAIN keys : j < i /\ keys[j] = keys[i]})]]

SortDescending(es, keys) ==
  [p \in 1 .. Len(es) |-> es[CHOOSE i \in 1 .. Len(es) : SortRank(keys, i) = p]]

\* the key of simple_fill's sort: len(self.slot_candidates(*slot))
CandidateCounts(s, ob, es) ==
  [i \in 1 .. Len(es) |-> BitCount(slot_candidates(s, ob, es[i][1], es[i][2]))]

(***************************************************************************)
(* SudokuBoard.simple_fill.  The loop body runs at most n more times on    *)
(* the heap s and the list content es; the result is the new heap, the new *)
(* list content and the returned status.                                   *)
(***************************************************************************)
RECURSIVE SimpleFillLoop(_, _, _, _, _)
SimpleFillLoop(s, ob, es, n, is_updated) ==
  IF n = 0 THEN [slots |-> s, empty_slots |-> es, res |-> is_updated]
  ELSE
    Local(es[Len(es)], LAMBDA rc :
    Local(SubSeq(es, 1, Len(es) - 1), LAMBDA popped :
    Local(slot_candidates(s, ob, rc[1], rc[2]), LAMBDA candidate :
    Local(BitCount(candidate), LAMBDA candidate_count :
      IF candidate_count > 1
        THEN [slots |-> s, empty_slots |-> Append(popped, rc), res |-> is_updated]
      ELSE IF candidate_count = 1
        THEN Local(SetRaw(s, ob.board, rc[1], rc[2], candidate), LAMBDA s2 :
               SimpleFillLoop(s2, ob, popped, n - 1, UPDATE))
      ELSE [slots |-> s, empty_slots |-> popped, res |-> CONFLICT]))))

\* variant of simple_fill that reports a cell without candidates as NO_UPDATE
simple_fill_no_conflict(s, ob, es) ==
  Local(CandidateCounts(s, ob, es), LAMBDA keys :
  Local(SortDescending(es, keys), LAMBDA sorted :
  Local(SimpleFillLoop(s, ob, sorted, Len(sorted), NO_UPDATE), LAMBDA out :
    [out EXCEPT !.res = IF @ = CONFLICT THEN NO_UPDATE ELSE @])))

simple_fill(s, ob, es) ==
  Local(CandidateCounts(s, ob, es), LAMBDA keys :
  Local(SortDescending(es, keys), LAMBDA sorted :
    SimpleFillLoop(s, ob, sorted, Len(sorted), NO_UPDATE)))

(***************************************************************************)
(* SlotCandidates.__next__: the first set bit of raw at index >= ind, as   *)
(* <<mask, new _ind>>, or <<0, 9>> for StopIteration.                      *)
(***************************************************************************)
\* variant of __next__ that yields the lowest candidate and then stops
CandidateFirstOnly(raw, ind) ==
  IF raw # 0 /\ \A j \in 0 .. ind - 1 : Bit(raw, j) = 0
    THEN Local(CHOOSE i \in Idx : Bit(raw, i) = 1 /\ \A j \in 0 .. i - 1 : Bit(raw, j) = 0,
               LAMBDA i : <<2 ^ i, i + 1>>)
    ELSE <<0, 9>>

RECURSIVE CandidateNext(_, _)
CandidateNext(raw, ind) ==
  IF ind > 8 THEN <<0, ind>>
  ELSE IF Bit(raw, ind) = 1 THEN <<2 ^ ind, ind + 1>>
  ELSE CandidateNext(raw, ind + 1)

(***************************************************************************)
(* SudokuBoard.clone: a new allocation, the raws read through self.board   *)
(* and the coordinates read from self.empty_slots copied by value.         *)
(***************************************************************************)
CloneSlots(s, ob) == [r \in Idx |-> [c \in Idx |-> s[ob.board][r][c]]]
CloneEmpty(l, ob) == [i \in 1 .. Len(l[ob.empty_slots]) |-> l[ob.empty_slots][i]]
\* variants of clone: one that returns the source itself, one whose empty_slots
\* is the source's list object instead of a copy
CloneBoardAlias(k, ob) == ob
CloneBoardSharedList(k, ob) == [NewBoard(k) EXCEPT !.empty_slots = ob.empty_slots]

CloneBoard(k, ob) == NewBoard(k)

(***************************************************************************)
(* SudokuBoard.sync_to: the five fields of self become those of ref.       *)
(***************************************************************************)
\* variant of sync_to that leaves self as it is
sync_to_nothing(self, ref) == self

sync_to(self, ref) ==
  [board |-> ref.board, row |-> ref.row, column |-> ref.column,
   block |-> ref.block, empty_slots |-> ref.empty_slots]

\* the digits / raws a board shows, read the way __str__ and the caller do
Values(s, ob) == [r \in Idx |-> [c \in Idx |-> s[ob.board][r][c]]]

(***************************************************************************)
(* Inputs.  gen_board is called on the digits of Puzzle with the first     *)
(* PoolSize cells of PoolCells overwritten by any digit 0..9; it raises    *)
(* ValueError unless the board is legal, so only legal boards start.       *)
(***************************************************************************)
Puzzle ==
  << <<3, 6, 4, 1, 2, 8, 9, 7, 5>>,
     <<1, 2, 9, 7, 5, 4, 6, 3, 8>>,
     <<8, 5, 7, 3, 9, 6, 2, 1, 4>>,
     <<2, 4, 8, 5, 6, 7, 3, 9, 1>>,
     <<5, 9, 6, 2, 1, 3, 4, 8, 7>>,
     <<7, 3, 1, 8, 4, 9, 5, 2, 6>>,
     <<0, 0, 0, 0, 0, 0, 0, 0, 3>>,
     <<0, 0, 0, 0, 0, 0, 0, 0, 0>>,
     <<0, 0, 3, 0, 0, 0, 0, 0, 2>> >>

PoolCells == << <<8, 6>>, <<7, 2>>, <<3, 2>>, <<6, 4>> >>

PoolSize == 2

InputDigits(f) ==
  [r \in Idx |-> [c \in Idx |->
     IF \E k \in 1 .. PoolSize : PoolCells[k] = <<r, c>>
       THEN f[CHOOSE k \in 1 .. PoolSize : PoolCells[k] = <<r, c>>]
       ELSE Puzzle[r + 1][c + 1]]]

\* gen_board accepts the digits: sudoku_map.is_legal after set_board_num
gen_board_accepts(digits) == is_legal(<<SetBoardRaw(digits)>>, NewBoard(1))

(***************************************************************************)
(* The frames of solver.  pc is the position in the body:                  *)
(*   "fill"     in / at the exit of the `while fill_result == UPDATE` loop  *)
(*   "iter"     at the head of `for candidate in candidates_pool`          *)
(*   "cloned"   after sudoku_guess = sudoku.clone()                         *)
(*   "called"   inside the recursive call                                  *)
(*   "returned" after the recursive call, fill_result holding its status   *)
(* entry and propagated are history: the raws of the board when the frame  *)
(* was entered and after its last simple_fill.                             *)
(***************************************************************************)
Frame(o, level, vals) ==
  [sudoku |-> o, guess_level |-> level, pc |-> "fill", fill_result |-> UPDATE,
   r |-> 0, c |-> 0, candidates_pool |-> 0, ind |-> 0, candidate |-> 0,
   sudoku_guess |-> 0, entry |-> vals, propagated |-> vals]

Op(op, o, res, aux) == [op |-> op, o |-> o, res |-> res, aux |-> aux]

InitBoard(digits) ==
  /\ gen_board_accepts(digits)
  /\ slots = <<SetBoardRaw(digits)>>
  /\ lists = <<SetBoardEmpty(digits)>>
  /\ obj = <<NewBoard(1)>>
  /\ given = digits
  /\ result = "NONE"
  /\ last = Op("gen_board", 1, "NONE", 0)
  /\ clones = {}
  /\ nops = 0

\* b = gen_board(argv[1]); solver(b)
Init ==
  \E f \in [1 .. PoolSize -> 0 .. 9] :
    /\ InitBoard(InputDigits(f))
    /\ stack = <<Frame(1, 0, SetBoardRaw(InputDigits(f)))>>

Top == stack[Len(stack)]

SetTop(f) == [stack EXCEPT ![Len(stack)] = f]

\* `return status` of the innermost solver call
Return(status) ==
  /\ last' = Op("solver", Top.sudoku, status, Top.propagated)
  /\ IF Len(stack) = 1
       THEN /\ stack' = <<>>
            /\ result' = status
       ELSE /\ stack' = [SubSeq(stack, 1, Len(stack) - 1) EXCEPT
                           ![Len(stack) - 1].fill_result = status,
                           ![Len(stack) - 1].pc = "returned"]
            /\ result' = result

\* while fill_result == UPDATE: fill_result = sudoku.simple_fill()
FillLoop ==
  /\ stack # <<>>
  /\ Top.pc = "fill"
  /\ Top.fill_result = UPDATE
  /\ \E ob \in {obj[Top.sudoku]} :
       \E out \in {simple_fill(slots, ob, lists[ob.empty_slots])} :
        /\ slots' = out.slots
        /\ lists' = [lists EXCEPT ![ob.empty_slots] = out.empty_slots]
        /\ stack' = SetTop([Top EXCEPT !.fill_result = out.res,
                                       !.propagated = Values(out.slots, ob)])
        /\ last' = Op("simple_fill", Top.sudoku, out.res, 0)
  /\ UNCHANGED <<obj, result, given, clones, nops>>

\* if fill_result == CONFLICT: return fill_result
ReturnConflict ==
  /\ stack # <<>>
  /\ Top.pc = "fill"
  /\ Top.fill_result = CONFLICT
  /\ Return(CONFLICT)
  /\ UNCHANGED <<slots, lists, obj, given, clones, nops>>

\* if sudoku.is_done: return ALL_DONE
ReturnDone ==
  /\ stack # <<>>
  /\ Top.pc = "fill"
  /\ Top.fill_result \notin {UPDATE, CONFLICT}
  /\ is_done(slots, obj[Top.sudoku])
  /\ Return(ALL_DONE)
  /\ UNCHANGED <<slots, lists, obj, given, clones, nops>>

\* r, c = sudoku.empty_slots.pop(-1); candidates_pool = sudoku.slot_candidates(r, c)
\* (pop on an empty list raises IndexError, which ends the program)
PickGuess ==
  /\ stack # <<>>
  /\ Top.pc = "fill"
  /\ Top.fill_result \notin {UPDATE, CONFLICT}
  /\ ~is_done(slots, obj[Top.sudoku])
  /\ \E ob \in {obj[Top.sudoku]} : \E es \in {lists[ob.empty_slots]} :
       IF es = <<>>
         THEN /\ stack' = <<>>
              /\ result' = "IndexError"
              /\ last' = Op("raise", Top.sudoku, "IndexError", 0)
              /\ UNCHANGED lists
         ELSE \E rc \in {es[Len(es)]} :
                 /\ lists' = [lists EXCEPT ![ob.empty_slots] = SubSeq(es, 1, Len(es) - 1)]
                 /\ stack' = SetTop([Top EXCEPT
                        !.pc = "iter", !.r = rc[1], !.c = rc[2], !.ind = 0,
                        !.candidates_pool = slot_candidates(slots, ob, rc[1], rc[2])])
                 /\ last' = Op("pop", Top.sudoku, "NONE", rc)
                 /\ result' = result
  /\ UNCHANGED <<slots, obj, given, clones, nops>>

\* the next candidate of the for loop, and sudoku_guess = sudoku.clone()
NextCandidate ==
  /\ stack # <<>>
  /\ Top.pc = "iter"
  /\ \E nx \in {CandidateNext(Top.candidates_pool, Top.ind)} :
     \E k \in {Len(obj) + 1} : \E ob \in {obj[Top.sudoku]} :
        /\ nx[1] # 0
        /\ slots' = Append(slots, CloneSlots(slots, ob))
        /\ lists' = Append(lists, CloneEmpty(lists, ob))
        /\ obj' = Append(obj, CloneBoard(k, ob))
        /\ stack' = SetTop([Top EXCEPT !.pc = "cloned", !.candidate = nx[1],
                                       !.ind = nx[2], !.sudoku_guess = k])
        /\ last' = Op("clone", Top.sudoku, "NONE", k)
        /\ clones' = clones \cup {<<Top.sudoku, k>>}
  /\ UNCHANGED <<result, given, nops>>

\* sudoku_guess.board[r][c].raw = candidate; solver(sudoku_guess, guess_level + 1)
GuessCall ==
  /\ stack # <<>>
  /\ Top.pc = "cloned"
  /\ \E g \in {Top.sudoku_guess} :
     \E s2 \in {SetRaw(slots, obj[g].board, Top.r, Top.c, Top.candidate)} :
        /\ slots' = s2
        /\ stack' = Append(SetTop([Top EXCEPT !.pc = "called"]),
                           Frame(g, Top.guess_level + 1, Values(s2, obj[g])))
        /\ last' = Op("guess", g, "NONE", <<Top.r, Top.c>>)
  /\ UNCHANGED <<lists, obj, result, given, clones, nops>>

\* if fill_result == ALL_DONE: sudoku.sync_to(sudoku_guess); return ALL_DONE
SyncReturn ==
  /\ stack # <<>>
  /\ Top.pc = "returned"
  /\ Top.fill_result = ALL_DONE
  /\ obj' = [obj EXCEPT ![Top.sudoku] = sync_to(obj[Top.sudoku], obj[Top.sudoku_guess])]
  /\ clones' = {p \in clones : Top.sudoku \notin {p[1], p[2]}}
  /\ Return(ALL_DONE)
  /\ UNCHANGED <<slots, lists, given, nops>>

\* the recursive call failed: on to the next candidate
Backtrack ==
  /\ stack # <<>>
  /\ Top.pc = "returned"
  /\ Top.fill_result # ALL_DONE
  /\ stack' = SetTop([Top EXCEPT !.pc = "iter"])
  /\ UNCHANGED <<slots, lists, obj, result, given, last, clones, nops>>

\* the for loop is exhausted: return fill_result
ReturnExhausted ==
  /\ stack # <<>>
  /\ Top.pc = "iter"
  /\ CandidateNext(Top.candidates_pool, Top.ind)[1] = 0
  /\ Return(Top.fill_result)
  /\ UNCHANGED <<slots, lists, obj, given, clones, nops>>

Next ==
  \/ FillLoop
  \/ ReturnConflict
  \/ ReturnDone
  \/ PickGuess
  \/ NextCandidate
  \/ GuessCall
  \/ SyncReturn
  \/ Backtrack
  \/ ReturnExhausted

Spec == Init /\ [][Next]_vars

\* the recursion is the only thread of control: a step is taken whenever one is possible
FairSpec == Spec /\ WF_vars(Next)

(***************************************************************************)
(* A driver of the SudokuBoard methods: up to MaxOps calls, in any order,  *)
(* on the board gen_board returned and on up to MaxBoards - 1 clones.      *)
(* The statements of solver that touch a board from outside (the pop of    *)
(* empty_slots, the append, the assignment of a candidate to a popped      *)
(* cell) are calls of their own.                                           *)
(***************************************************************************)
MaxOps == 4

MaxBoards == 3

Boards == 1 .. Len(obj)

\* the coordinates of the cells of board k whose raw is 0
ZeroCells(s, ob) == {rc \in Idx \X Idx : s[ob.board][rc[1]][rc[2]] = 0}

ListSet(es) == {es[i] : i \in 1 .. Len(es)}

\* cells a caller popped from empty_slots and did not fill yet
PoppedCells(k) == ZeroCells(slots, obj[k]) \ ListSet(lists[obj[k].empty_slots])

CandidateMasks(raw) == {2 ^ i : i \in {j \in Idx : Bit(raw, j) = 1}}

\* the driver starts from the boards whose pool cells hold one of these digits
ApiPoolDigits == {0, 5}

ApiInit ==
  \E f \in [1 .. PoolSize -> ApiPoolDigits] :
    /\ InitBoard(InputDigits(f))
    /\ stack = <<>>

ApiStep == nops < MaxOps /\ nops' = nops + 1

\* obj[k].simple_fill()
ApiSimpleFill(k) ==
  /\ ApiStep
  /\ \E ob \in {obj[k]} :
       \E out \in {simple_fill(slots, ob, lists[ob.empty_slots])} :
        /\ slots' = out.slots
        /\ lists' = [lists EXCEPT ![ob.empty_slots] = out.empty_slots]
        /\ last' = Op("simple_fill", k, out.res, <<last.op, last.o, last.res>>)
  /\ UNCHANGED <<obj, stack, result, given, clones>>

\* obj[k].clone()
ApiClone(k) ==
  /\ ApiStep
  /\ Len(obj) < MaxBoards
  /\ \E n \in {Len(obj) + 1} : \E ob \in {obj[k]} :
        /\ slots' = Append(slots, CloneSlots(slots, ob))
        /\ lists' = Append(lists, CloneEmpty(lists, ob))
        /\ obj' = Append(obj, CloneBoard(n, ob))
        /\ last' = Op("clone", k, "NONE", n)
        /\ clones' = clones \cup {<<k, n>>}
  /\ UNCHANGED <<stack, result, given>>

\* obj[a].sync_to(obj[b])
ApiSyncTo(a, b) ==
  /\ ApiStep
  /\ a # b
  /\ obj' = [obj EXCEPT ![a] = sync_to(obj[a], obj[b])]
  /\ last' = Op("sync_to", a, "NONE", b)
  /\ clones' = {p \in clones : a \notin {p[1], p[2]}}
  /\ UNCHANGED <<slots, lists, stack, result, given>>

\* obj[k].empty_slots.pop(-1)
ApiPop(k) ==
  /\ ApiStep
  /\ \E es \in {lists[obj[k].empty_slots]} :
        /\ es # <<>>
        /\ lists' = [lists EXCEPT ![obj[k].empty_slots] = SubSeq(es, 1, Len(es) - 1)]
        /\ last' = Op("pop", k, "NONE", es[Len(es)])
  /\ UNCHANGED <<slots, obj, stack, result, given, clones>>

\* obj[k].empty_slots.append(rc)
ApiAppend(k, rc) ==
  /\ ApiStep
  /\ lists' = [lists EXCEPT ![obj[k].empty_slots] = Append(@, rc)]
  /\ last' = Op("append", k, "NONE", rc)
  /\ UNCHANGED <<slots, obj, stack, result, given, clones>>

\* obj[k].board[r][c].raw = candidate
ApiAssign(k, rc, candidate) ==
  /\ ApiStep
  /\ slots' = SetRaw(slots, obj[k].board, rc[1], rc[2], candidate)
  /\ last' = Op("assign", k, "NONE", rc)
  /\ UNCHANGED <<lists, obj, stack, result, given, clones>>

ApiNext ==
  \/ \E k \in Boards : ApiSimpleFill(k)
  \/ \E k \in Boards : ApiClone(k)
  \/ \E a \in Boards : \E b \in Boards : ApiSyncTo(a, b)
  \/ \E k \in Boards : ApiPop(k)
  \/ \E k \in Boards : \E rc \in PoppedCells(k) : ApiAppend(k, rc)
  \/ \E k \in Boards : \E rc \in PoppedCells(k) :
       \E m \in CandidateMasks(slot_candidates(slots, obj[k], rc[1], rc[2])) :
         ApiAssign(k, rc, m)

ApiSpec == ApiInit /\ [][ApiNext]_vars

(***************************************************************************)
(* Properties                                                              *)
(***************************************************************************)
\* empty_slots of board k lists exactly the coordinates of its cells with raw 0
EmptySlotsExact(k) ==
  /\ ListSet(lists[obj[k].empty_slots]) = ZeroCells(slots, obj[k])
  /\ Cardinality(ListSet(lists[obj[k].empty_slots])) = Len(lists[obj[k].empty_slots])

\* the digit a raw stands for (0 for anything that is not one digit)
DigitOf(raw) == IF raw \in DOMAIN R_TO_NUM THEN R_TO_NUM[raw] ELSE 0

GroupDigits(g, cells) == {DigitOf(g[cells[k][1]][cells[k][2]]) : k \in 1 .. 9}

\* all 81 cells hold a digit 1-9 and every row, column and block holds each digit once
Solved(g) ==
  /\ \A r \in Idx : \A c \in Idx : DigitOf(g[r][c]) \in 1 .. 9
  /\ \A i \in Idx : GroupDigits(g, RowCells(i)) = 1 .. 9
  /\ \A i \in Idx : GroupDigits(g, ColumnCells(i)) = 1 .. 9
  /\ \A i \in Idx : GroupDigits(g, BlockCells(i)) = 1 .. 9

\* every cell that is filled in `before` holds the same raw in `after`
Keeps(before, after) ==
  \A r \in Idx : \A c \in Idx : before[r][c] # 0 => after[r][c] = before[r][c]

EmptyCount(g) == Cardinality({rc \in Idx \X Idx : g[rc[1]][rc[2]] = 0})

\* digit d may be put at rc of the digit grid g: no cell of its row, column or block holds d
Allowed(g, rc, d) ==
  /\ \A k \in Idx : g[rc[1]][k] # d /\ g[k][rc[2]] # d
  /\ \A i \in 0 .. 2 : \A j \in 0 .. 2 :
       g[3 * (rc[1] \div 3) + i][3 * (rc[2] \div 3) + j] # d

AllowedDigits(g, rc) == {d \in 1 .. 9 : Allowed(g, rc, d)}

\* the digit grid g has a valid completion (exhaustive search, most constrained cell first)
RECURSIVE HasCompletion(_)
HasCompletion(g) ==
  \E empty \in {{rc \in Idx \X Idx : g[rc[1]][rc[2]] = 0}} :
    \/ empty = {}
    \/ /\ empty # {}
       /\ \E n \in {[rc \in empty |-> Cardinality(AllowedDigits(g, rc))]} :
          \E rc \in {CHOOSE x \in empty : \A y \in empty : n[x] <= n[y]} :
          \E d \in AllowedDigits(g, rc) :
          \E g2 \in {[g EXCEPT ![rc[1]][rc[2]] = d]} : HasCompletion(g2)

\* C1: whenever solver returns ALL_DONE, the board it was called on is completely
\* and validly filled (81 digits 1-9, every row, column and block a permutation),
\* it still holds every raw it held after its own propagation, and at the outermost
\* return the caller's board still holds every given digit.
C1_AllDoneIsSolved ==
  (last.op = "solver" /\ last.res = ALL_DONE) =>
     /\ Solved(Values(slots, obj[last.o]))
     /\ Keeps(last.aux, Values(slots, obj[last.o]))
     /\ (stack = <<>> => Keeps(SetBoardRaw(given), Values(slots, obj[1])))

\* C1 witness: the outermost call returned ALL_DONE after at least two guesses
C1_Witness == stack = <<>> /\ result = ALL_DONE /\ Len(obj) >= 3

\* the boards of nested calls have strictly fewer empty cells on entry, level by
\* level, and the guess level never exceeds the number of initially empty cells
RecursionShrinks ==
  /\ \A i \in 2 .. Len(stack) :
        EmptyCount(stack[i].entry) < EmptyCount(stack[i - 1].entry)
  /\ \A i \in 1 .. Len(stack) : stack[i].guess_level <= EmptyCount(given)

\* C2: solver terminates; on an input that has a valid completion it returns
\* ALL_DONE; every recursive call is entered with strictly fewer empty cells than
\* its caller was, so the depth never exceeds the number of initially empty cells.
C2_TerminatesAllDone ==
  /\ <>(stack = <<>>)
  /\ []((stack = <<>> /\ HasCompletion(given)) => result = ALL_DONE)
  /\ []RecursionShrinks

\* C2 witness: a solvable input was solved with a recursion at least two deep
\* in which some branch had failed
C2_Witness ==
  /\ stack = <<>>
  /\ result = ALL_DONE
  /\ \E k \in Boards : ~Solved(Values(slots, obj[k])) /\ k >= 3

\* C3: every group of every board (the caller's and every clone) is legal in
\* every state reached, i.e. after every simple_fill and every guess assignment.
C3_AlwaysLegal == \A k \in Boards : is_legal(slots, obj[k])

\* C3 witness: simple_fill just filled cells on a clone that holds a guess
C3_Witness == last.op = "simple_fill" /\ last.res = UPDATE /\ last.o > 1

\* C4: a board on which solver fails shows exactly the raws it had after its own
\* propagation (no guess of this level or below is visible in it), a board whose
\* call is waiting on a branch is untouched by that branch, and every branch
\* starts from the caller's propagated raws plus its own guess only.
C4_BranchesIsolated ==
  /\ (last.op = "solver" /\ last.res # ALL_DONE) =>
        Values(slots, obj[last.o]) = last.aux
  /\ \A i \in 1 .. Len(stack) :
        stack[i].pc \in {"iter", "cloned", "called", "returned"} =>
          Values(slots, obj[stack[i].sudoku]) = stack[i].propagated
  /\ \A i \in 2 .. Len(stack) :
        stack[i].entry =
          [stack[i - 1].propagated EXCEPT ![stack[i - 1].r][stack[i - 1].c] =
                                             stack[i - 1].candidate]

\* C4 witness: a call that made guesses returned CONFLICT after all of them failed
C4_Witness == last.op = "solver" /\ last.res = CONFLICT /\ Len(obj) > last.o

\* C5: solver only ever returns ALL_DONE or CONFLICT, at every level, and the
\* cell it guesses on has at least two candidates.
C5_TerminalStatus ==
  /\ last.op = "solver" => last.res \in {ALL_DONE, CONFLICT}
  /\ result \in {"NONE", ALL_DONE, CONFLICT}
  /\ \A i \in 1 .. Len(stack) :
        stack[i].pc \in {"iter", "cloned", "called", "returned"} =>
          BitCount(stack[i].candidates_pool) >= 2

\* C5 witness: the outermost call returned CONFLICT out of its candidate loop
C5_Witness == stack = <<>> /\ result = CONFLICT /\ Len(obj) > 1

\* C7: at every return of simple_fill, clone and solver (sync_to returns inside
\* solver's ALL_DONE return) empty_slots lists exactly the empty cells of the board.
C7_EmptySlotsExact ==
  /\ last.op \in {"simple_fill", "solver"} => EmptySlotsExact(last.o)
  /\ last.op = "clone" => EmptySlotsExact(last.o) /\ EmptySlotsExact(last.aux)

\* no empty cell of board k has exactly one candidate
NoSingleCandidate(k) ==
  \A rc \in ZeroCells(slots, obj[k]) :
     BitCount(slot_candidates(slots, obj[k], rc[1], rc[2])) # 1

\* C8 as stated: after a simple_fill that returned UPDATE or NO_UPDATE no empty
\* cell of the board has exactly one candidate.
C8_FixedPointInOneCall ==
  (last.op = "simple_fill" /\ last.res \in {UPDATE, NO_UPDATE}) => NoSingleCandidate(last.o)

\* C8 amended: after a simple_fill that returned NO_UPDATE no empty cell of the
\* board has exactly one candidate.
C8_FixedPointAtNoUpdate ==
  (last.op = "simple_fill" /\ last.res = NO_UPDATE) => NoSingleCandidate(last.o)

\* C8 witness: simple_fill returned NO_UPDATE on a board that still has empty cells
C8_Witness ==
  /\ last.op = "simple_fill"
  /\ last.res = NO_UPDATE
  /\ ZeroCells(slots, obj[last.o]) # {}

\* the calls that change a board's cells or its empty_slots list
Mutators == {"simple_fill", "pop", "append", "assign"}

\* the cell values and the empty_slots content of board k in heap s, l
BoardState(s, l, ob) == <<Values(s, ob), l[ob.empty_slots]>>

\* boards a and b have no Slot matrix, no group view and no list in common
Disjoint(a, b) ==
  {a.board, a.row, a.column, a.block} \cap {b.board, b.row, b.column, b.block} = {}
    /\ a.empty_slots # b.empty_slots

\* C6: at the return of clone the new board has the cell values and the
\* empty_slots content of its source (also when the source was the target of a
\* sync_to) and has no part in common with any other board; and a later
\* assignment, pop, append or simple_fill on a clone leaves the cell values and
\* the empty_slots of its source unchanged, and the other way round.
C6_CloneEqualAndSeparate ==
  /\ [](last.op = "clone" =>
          /\ BoardState(slots, lists, obj[last.aux]) = BoardState(slots, lists, obj[last.o])
          /\ \A k \in Boards \ {last.aux} : Disjoint(obj[last.aux], obj[k]))
  /\ [][\A p \in clones : \A i \in {1, 2} :
          (nops' # nops /\ last'.op \in Mutators /\ last'.o = p[i]) =>
             BoardState(slots', lists', obj'[p[3 - i]]) =
               BoardState(slots, lists, obj[p[3 - i]])]_vars

\* C6 witness: empty_slots of a clone was popped, the clone's source being a
\* board that had been the target of a sync_to
C6_Witness ==
  /\ last.op = "pop"
  /\ \E p \in clones : p[2] = last.o /\ obj[p[1]].board # p[1]

\* C9 as stated: after a.sync_to(b) board a has the cell values and the
\* empty_slots content of b and shares nothing with b, so that a following
\* assignment, pop, append or simple_fill on b leaves a's cell values and
\* empty_slots unchanged.
C9_SyncByValue ==
  /\ [](last.op = "sync_to" =>
          BoardState(slots, lists, obj[last.o]) = BoardState(slots, lists, obj[last.aux]))
  /\ [][(last.op = "sync_to" /\ nops' # nops /\ last'.op \in Mutators /\ last'.o = last.aux) =>
          BoardState(slots', lists', obj'[last.o]) =
            BoardState(slots, lists, obj[last.o])]_vars

\* C10: a simple_fill that immediately follows a simple_fill on the same board
\* that returned NO_UPDATE returns NO_UPDATE too and changes no cell and neither
\* the content nor the order of any empty_slots list.
C10_IdempotentAtNoUpdate ==
  [][(/\ last.op = "simple_fill"
      /\ last.res = NO_UPDATE
      /\ nops' # nops
      /\ last'.op = "simple_fill"
      /\ last'.o = last.o) =>
        (last'.res = NO_UPDATE /\ slots' = slots /\ lists' = lists)]_vars

\* C10 witness: two consecutive simple_fill calls on a board with at least two
\* empty cells, the first of which returned NO_UPDATE
C10_Witness ==
  /\ last.op = "simple_fill"
  /\ last.aux = <<"simple_fill", last.o, NO_UPDATE>>
  /\ Len(lists[obj[last.o].empty_slots]) >= 2

====
